---- MODULE Spec2Model ----
(***************************************************************************)
(* Verification model of the vaporetto predictor pipeline                  *)
(* (vaporetto/src/predictor.rs): Predictor::new, predict,                  *)
(* predict_with_score and fill_tags acting on one Sentence.                *)
(*                                                                         *)
(* Indices are 0-based as in the source; TLA+ sequences are 1-based, so    *)
(* element i of a vector v is v[i + 1].  Option<T> is a sequence of        *)
(* length 0 (None) or 1 (Some).                                            *)
(***************************************************************************)
EXTENDS Integers, Sequences, FiniteSets, TLC

VARIABLES
    model,          \* the Model handed to Predictor::new (kept for reference)
    predict_tags,   \* the flag handed to Predictor::new
    status,         \* "unbuilt" | "ok" | "err"   (result of Predictor::new)
    predictor,      \* the Predictor struct
    has_sentence,   \* a Sentence has been constructed
    sentence,       \* the Sentence struct
    ys,             \* the padded score vector predict_impl computed, when the
                    \* last operation was a prediction (else empty)
    accs,           \* per character, the accumulator fill_tags chose the tag
                    \* from, when the last operation was fill_tags (else empty)
    last_op,        \* name of the last operation that ran
    fault,          \* "none", or the panic the last operation ended in
    raw_text,       \* the string handed to the preprocessors (code points)
    preprocessed,   \* the strings preprocess_kytea_style returned so far
    filtered        \* the strings KyteaFullwidthFilter::filter returned so far

vars == <<model, predict_tags, status, predictor, has_sentence, sentence,
          ys, accs, last_op, fault, raw_text, preprocessed, filtered>>

(***************************************************************************)
(* Bounds of the model.                                                    *)
(***************************************************************************)
MaxLen == 3
MaxWindow == 2
MaxList == 2
MaxRounds == 2

Chars == {"a", "b"}
Biases == {-1, 0}
Windows == 1..MaxWindow

\* lanes of the integer-add vector (char_scorer::SIMD_SIZE)
SIMD_SIZE == 16

None == <<>>
Some(x) == <<x>>

Max(a, b) == IF a >= b THEN a ELSE b

RECURSIVE SeqsUpTo(_)
SeqsUpTo(k) ==
    IF k = 0 THEN {<<>>}
    ELSE LET S == SeqsUpTo(k - 1)
         IN  S \cup {Append(s, c) : s \in {t \in S : Len(t) = k - 1}, c \in Chars}

Texts == {t \in SeqsUpTo(MaxLen) : Len(t) >= 1}

\* the external character classifier: one class code per character
\* (hiragana "H", everything else "K"; the characters of the tests' sentences
\* are written in Latin transcription)
Hiragana == {"a", "ra", "ha", "no", "to", "wo", "tsu", "na", "gu"}
CharType(c) == IF c \in Hiragana THEN "H" ELSE "K"
CharTypes(chars) == [i \in 1..Len(chars) |-> CharType(chars[i])]

(***************************************************************************)
(* Sentence (crate::sentence, consumed through its fields).                *)
(***************************************************************************)
EmptyTagScores == [left_scores |-> <<>>, right_scores |-> <<>>, self_scores |-> <<>>]

\* Sentence::from_raw: labels Unknown, empty scratch vectors, no tags
FromRawSentence(text) ==
    [chars |-> text,
     char_types |-> CharTypes(text),
     boundaries |-> [i \in 1..(Len(text) - 1) |-> "Unknown"],
     boundary_scores |-> <<>>,
     tag_scores |-> EmptyTagScores,
     tags |-> <<>>]

NoSentence == FromRawSentence(<<>>)

\* TagScores::init(n_chars, n_tags): cleared and resized, zero filled
TagScoresInit(n, T) ==
    [left_scores |-> [k \in 1..(n * T) |-> 0],
     right_scores |-> [k \in 1..(n * T) |-> 0],
     self_scores |-> [k \in 1..n |-> None]]

(***************************************************************************)
(* Pattern matching (the external multi-pattern matcher): pattern p        *)
(* occurs in haystack h with its last character at 0-based index e.        *)
(***************************************************************************)
IsMatch(p, h, e) ==
    /\ Len(p) >= 1
    /\ e + 1 >= Len(p)
    /\ e + 1 <= Len(h)
    /\ SubSeq(h, e + 2 - Len(p), e + 1) = p

\* v with the vector w added in at 0-based offset start; entries of w that
\* fall outside v are dropped
AddAt(v, start, w) ==
    [k \in 1..Len(v) |->
        v[k] + (IF (k - start) \in 1..Len(w) THEN w[k - start] ELSE 0)] \o <<>>

(***************************************************************************)
(* Feature geometry of the scorers (crate::char_scorer,                    *)
(* crate::type_scorer), as laid out in the tests' model comments: the gap  *)
(* (or row) receiving the first element of a pattern's weight vector, for  *)
(* a match of a pattern of length plen ending at character e.              *)
(***************************************************************************)
\* variant: the first weight W gaps before the first character of the match
NgramStartAtFirstChar(e, plen, W) == e - plen + 1 - W
\* n-gram weights cover the gaps e - W .. e - W + |weights| - 1
NgramStart(e, plen, W) == e - W
\* number of gaps whose window of 2W characters holds the whole n-gram
NgramWeightLen(plen, W) == 2 * W - plen + 1
\* dictionary word: right on the gap before its first character, inside on
\* its inner gaps, left on the gap after its last character
\* variant: everything one gap earlier (left on the gap e - 1)
DictStartBefore(e, plen) == e - plen - 1
DictStart(e, plen) == e - plen
DictWeightVector(rec) ==
    [j \in 1..(Len(rec.word) + 1) |->
        IF j = 1 THEN rec.right
        ELSE IF j = Len(rec.word) + 1 THEN rec.left
        ELSE rec.inside]
\* variant: the first row on the first character of the match
LeftStartRowAtFirstChar(e, plen) == e - plen + 1
\* tag models: rows of T weights
LeftStartRow(e, plen) == e - plen + 2
RightStartRow(e, W) == e - W

\* the tag matchers see the text between two NUL sentinels
NUL == "\\0"
TagHaystack(chars) == <<NUL>> \o chars \o <<NUL>>

(***************************************************************************)
(* Scorer construction: CharScorer::new, CharScorerWithTags::new,          *)
(* TypeScorer::new return an error for a weight vector of the wrong length.*)
(***************************************************************************)
NgramModelValid(data, W) ==
    \A k \in 1..Len(data) :
        /\ Len(data[k].ngram) >= 1
        /\ Len(data[k].weights) = NgramWeightLen(Len(data[k].ngram), W)

CharScorerNew(char_ngram_model, window_size, dict_model) ==
    [ok |-> NgramModelValid(char_ngram_model, window_size),
     kind |-> "Boundary",
     ngrams |-> char_ngram_model,
     window_size |-> window_size,
     dict |-> dict_model,
     n_tags |-> 0,
     left |-> <<>>, right |-> <<>>, self |-> <<>>]

CharScorerWithTagsNew(char_ngram_model, window_size, dict_model, n_tags, left_char_model, right_char_model, self_char_model) ==
    [ok |-> NgramModelValid(char_ngram_model, window_size),
     kind |-> "BoundaryAndTags",
     ngrams |-> char_ngram_model,
     window_size |-> window_size,
     dict |-> dict_model,
     n_tags |-> n_tags,
     left |-> left_char_model, right |-> right_char_model,
     self |-> self_char_model]

TypeScorerNew(type_ngram_model, window_size) ==
    [ok |-> NgramModelValid(type_ngram_model, window_size),
     ngrams |-> type_ngram_model,
     window_size |-> window_size]

(***************************************************************************)
(* Scorer application.  v is the vector written to, off the offset of gap  *)
(* (row) 0 in it; every match of every pattern adds its weight vector      *)
(* (there is nothing to add to an empty vector).                           *)
(***************************************************************************)
RECURSIVE NgramAddFrom(_, _, _, _, _, _)
NgramAddFrom(v, d, h, W, off, e) ==
    IF v = <<>> \/ e >= Len(h) THEN v
    ELSE NgramAddFrom(
            IF IsMatch(d.ngram, h, e)
            THEN AddAt(v, NgramStart(e, Len(d.ngram), W) + off, d.weights)
            ELSE v,
            d, h, W, off, e + 1)

RECURSIVE NgramModelAdd(_, _, _, _, _, _)
NgramModelAdd(v, data, h, W, off, k) ==
    IF v = <<>> \/ k > Len(data) THEN v
    ELSE NgramModelAdd(NgramAddFrom(v, data[k], h, W, off, 0),
                       data, h, W, off, k + 1)

RECURSIVE DictAddFrom(_, _, _, _, _)
DictAddFrom(v, rec, h, off, e) ==
    IF v = <<>> \/ e >= Len(h) THEN v
    ELSE DictAddFrom(
            IF IsMatch(rec.word, h, e)
            THEN AddAt(v, DictStart(e, Len(rec.word)) + off, DictWeightVector(rec))
            ELSE v,
            rec, h, off, e + 1)

RECURSIVE DictModelAdd(_, _, _, _, _)
DictModelAdd(v, dict, h, off, k) ==
    IF v = <<>> \/ k > Len(dict) THEN v
    ELSE DictModelAdd(DictAddFrom(v, dict[k], h, off, 0), dict, h, off, k + 1)

\* CharScorer::add_scores(sentence, padding, ys)
CharScorerAddScores(cs, s, padding, v) ==
    DictModelAdd(
        NgramModelAdd(v, cs.ngrams, s.chars, cs.window_size, padding, 1),
        cs.dict, s.chars, padding, 1)

\* TypeScorer::add_scores(sentence, ys[padding..]): slice is unpadded
TypeScorerAddScores(ts, s, slice) ==
    NgramModelAdd(slice, ts.ngrams, s.char_types, ts.window_size, 0, 1)

(***************************************************************************)
(* CharScorerWithTags::add_scores: the boundary part as above, and the     *)
(* three tag matrices.  pe is the 0-based end index in the NUL-padded      *)
(* haystack, pe - 1 the index in the text.                                 *)
(***************************************************************************)
RECURSIVE LeftAddFrom(_, _, _, _, _)
LeftAddFrom(v, d, h, T, pe) ==
    IF v = <<>> \/ pe >= Len(h) THEN v
    ELSE LeftAddFrom(
            IF IsMatch(d.ngram, h, pe)
            THEN AddAt(v, LeftStartRow(pe - 1, Len(d.ngram)) * T, d.weights)
            ELSE v,
            d, h, T, pe + 1)

RECURSIVE LeftModelAdd(_, _, _, _, _)
LeftModelAdd(v, data, h, T, k) ==
    IF v = <<>> \/ k > Len(data) THEN v
    ELSE LeftModelAdd(LeftAddFrom(v, data[k], h, T, 0), data, h, T, k + 1)

RECURSIVE RightAddFrom(_, _, _, _, _, _)
RightAddFrom(v, d, h, W, T, pe) ==
    IF v = <<>> \/ pe >= Len(h) THEN v
    ELSE RightAddFrom(
            IF IsMatch(d.ngram, h, pe)
            THEN AddAt(v, RightStartRow(pe - 1, W) * T, d.weights)
            ELSE v,
            d, h, W, T, pe + 1)

RECURSIVE RightModelAdd(_, _, _, _, _, _)
RightModelAdd(v, data, h, W, T, k) ==
    IF v = <<>> \/ k > Len(data) THEN v
    ELSE RightModelAdd(RightAddFrom(v, data[k], h, W, T, 0), data, h, W, T, k + 1)

\* variant: start_rel_position counted from the pattern's first character
SelfRecordFromFirstChar(d) ==
    [start_rel_position |-> 0 - (Len(d.ngram) - 1), weight |-> d.weights]

\* a self-model match ending at character e leaves a record on slot e whose
\* start_rel_position is minus the pattern length
SelfRecord(d) == [start_rel_position |-> 0 - Len(d.ngram), weight |-> d.weights]

\* the records of one slot are kept in the order a single pass of the scan
\* of fill_tags suffices for: the shorter pattern first
InsertSelf(slot, rec) ==
    IF slot = None THEN Some(<<rec>>)
    ELSE LET list == slot[1]
             pre  == SelectSeq(list, LAMBDA r : r.start_rel_position >= rec.start_rel_position)
             post == SelectSeq(list, LAMBDA r : r.start_rel_position < rec.start_rel_position)
         IN  Some(pre \o <<rec>> \o post)

RECURSIVE SelfAddFrom(_, _, _, _)
SelfAddFrom(v, d, h, pe) ==
    IF v = <<>> \/ pe >= Len(h) THEN v
    ELSE SelfAddFrom(
            IF IsMatch(d.ngram, h, pe) /\ pe \in 1..Len(v)
            THEN [v EXCEPT ![pe] = InsertSelf(v[pe], SelfRecord(d))]
            ELSE v,
            d, h, pe + 1)

RECURSIVE SelfModelAdd(_, _, _, _)
SelfModelAdd(v, data, h, k) ==
    IF v = <<>> \/ k > Len(data) THEN v
    ELSE SelfModelAdd(SelfAddFrom(v, data[k], h, 0), data, h, k + 1)

TagAddScores(cs, s, tag_ys) ==
    LET h == TagHaystack(s.chars)
    IN  [left_scores |-> LeftModelAdd(tag_ys.left_scores, cs.left, h, cs.n_tags, 1),
         right_scores |-> RightModelAdd(tag_ys.right_scores, cs.right, h,
                                        cs.window_size, cs.n_tags, 1),
         self_scores |-> SelfModelAdd(tag_ys.self_scores, cs.self, h, 1)]

(***************************************************************************)
(* Predictor (predictor.rs).                                               *)
(***************************************************************************)
NoPredictor ==
    [bias |-> 0,
     char_scorer |-> CharScorerNew(<<>>, 0, <<>>),
     type_scorer |-> TypeScorerNew(<<>>, 0),
     padding |-> 0,
     tag_names |-> <<>>,
     tag_bias |-> <<>>]

\* the class names and biases pushed by the loop over class_info
ClassNames(m) == [k \in 1..Len(m.tag_model.class_info) |-> m.tag_model.class_info[k].name]
ClassBias(m) == [k \in 1..Len(m.tag_model.class_info) |-> m.tag_model.class_info[k].bias]

\* variant: the tag scorer only when there are tag classes
NewCharScorerIfClasses(m, ptags) ==
    IF ptags /\ m.tag_model.class_info # <<>>
    THEN CharScorerWithTagsNew(m.char_ngram_model, m.char_window_size, m.dict_model,
                               Len(ClassNames(m)),
                               m.tag_model.left_char_model,
                               m.tag_model.right_char_model,
                               m.tag_model.self_char_model)
    ELSE CharScorerNew(m.char_ngram_model, m.char_window_size, m.dict_model)

\* the scorer variant Predictor::new selects
NewCharScorer(m, ptags) ==
    IF ptags
    THEN CharScorerWithTagsNew(m.char_ngram_model, m.char_window_size, m.dict_model,
                               Len(ClassNames(m)),
                               m.tag_model.left_char_model,
                               m.tag_model.right_char_model,
                               m.tag_model.self_char_model)
    ELSE CharScorerNew(m.char_ngram_model, m.char_window_size, m.dict_model)

NewTypeScorer(m) == TypeScorerNew(m.type_ngram_model, m.type_window_size)

\* variant: the type scorer's error is dropped
NewOkCharOnly(m, ptags) == NewCharScorer(m, ptags).ok

\* Predictor::new succeeds iff neither constructor returned an error (the ?s)
NewOk(m, ptags) == NewCharScorer(m, ptags).ok /\ NewTypeScorer(m).ok

NewPredictor(m, ptags) ==
    [bias |-> m.bias,
     char_scorer |-> NewCharScorer(m, ptags),
     type_scorer |-> NewTypeScorer(m),
     padding |-> Max(m.char_window_size, m.type_window_size),
     tag_names |-> IF ptags THEN ClassNames(m) ELSE <<>>,
     tag_bias |-> IF ptags THEN ClassBias(m) ELSE <<>>]

\* variant: no trailing guard region
YsSizeNoGuard(p, s) == Len(s.boundaries) + p.padding

\* length of the padded score vector
YsSize(p, s) == Len(s.boundaries) + p.padding + SIMD_SIZE - 1

\* variant: the type scorer is handed the whole vector
TypeSliceWhole(p) == 0

\* where the type scorer's slice starts in ys
TypeSliceStart(p) == p.padding

\* variant: a score of zero is not a boundary
ThresholdStrict(y) == IF y > 0 THEN "WordBoundary" ELSE "NotWordBoundary"

\* the label of a score
Threshold(y) == IF y >= 0 THEN "WordBoundary" ELSE "NotWordBoundary"

\* variant: the vector is filled with the bias again before the type
\* scorer, so that what the char scorer added is lost
ScoreYsRefilled(p, s) ==
    LET ys0 == [k \in 1..YsSize(p, s) |-> p.bias]
        st  == TypeSliceStart(p)
    IN  SubSeq(ys0, 1, st)
          \o TypeScorerAddScores(p.type_scorer, s, SubSeq(ys0, st + 1, Len(ys0)))

\* the scoring pass of predict_impl: the padded vector after both scorers
ScoreYs(p, s) ==
    LET ys0 == [k \in 1..YsSize(p, s) |-> p.bias]
        ys1 == CharScorerAddScores(p.char_scorer, s, p.padding, ys0)
        st  == TypeSliceStart(p)
    IN  SubSeq(ys1, 1, st)
          \o TypeScorerAddScores(p.type_scorer, s, SubSeq(ys1, st + 1, Len(ys1)))

\* tag_scores after predict_impl
PredictTagScores(p, s) ==
    IF p.char_scorer.kind = "BoundaryAndTags"
    THEN TagAddScores(p.char_scorer, s,
                      TagScoresInit(Len(s.chars), Len(p.tag_names)))
    ELSE s.tag_scores

\* the zip of ys[padding..] with boundaries.iter_mut()
LabelBoundaries(p, s, v) ==
    [i \in 1..Len(s.boundaries) |->
        IF p.padding + i <= Len(v) THEN Threshold(v[p.padding + i]) ELSE s.boundaries[i]]

PredictImpl(p, s) ==
    LET v == ScoreYs(p, s)
    IN  [s EXCEPT !.tag_scores = PredictTagScores(p, s),
                  !.boundaries = LabelBoundaries(p, s, v),
                  !.boundary_scores = v]

\* Vec::rotate_left(k) and Vec::truncate(len)
RotateLeft(v, k) == SubSeq(v, k + 1, Len(v)) \o SubSeq(v, 1, k)
Truncate(v, len) == IF len < Len(v) THEN SubSeq(v, 1, len) ELSE v

PredictResult(p, s) ==
    [PredictImpl(p, s) EXCEPT !.boundary_scores = <<>>]

\* variant: truncation without the rotation
PredictWithScoreNoRotate(p, s) ==
    LET r == PredictImpl(p, s)
    IN  [r EXCEPT !.boundary_scores = Truncate(r.boundary_scores, Len(r.boundaries))]

PredictWithScoreResult(p, s) ==
    LET r == PredictImpl(p, s)
    IN  [r EXCEPT !.boundary_scores =
            Truncate(RotateLeft(r.boundary_scores, p.padding), Len(r.boundaries))]

(***************************************************************************)
(* fill_tags (predictor.rs).                                               *)
(***************************************************************************)
Min(a, b) == IF a <= b THEN a ELSE b

\* slice::chunks(T): the number of chunks and chunk r (0-based)
NumChunks(v, T) == (Len(v) + T - 1) \div T
Chunk(v, T, r) == SubSeq(v, r * T + 1, Min((r + 1) * T, Len(v)))

\* for (t, x) in acc.iter_mut().zip(row) { *t += x }
ZipAdd(acc, row) ==
    [t \in 1..Len(acc) |-> acc[t] + (IF t <= Len(row) THEN row[t] ELSE 0)] \o <<>>

\* for (t, (l, b)) in acc.iter_mut().zip(left.iter().zip(tag_bias)) { *t = l + b }
ZipReset(acc, row, bias) ==
    [t \in 1..Len(acc) |->
        IF t <= Len(row) /\ t <= Len(bias) THEN row[t] + bias[t] ELSE acc[t]] \o <<>>

\* variant: no break after an entry was added
RECURSIVE ScanSelfAll(_, _, _, _)
ScanSelfAll(acc, list, diff, k) ==
    IF k > Len(list) THEN acc
    ELSE IF list[k].start_rel_position > diff THEN ScanSelfAll(acc, list, diff, k + 1)
    ELSE IF list[k].start_rel_position = diff
    THEN ScanSelfAll(ZipAdd(acc, list[k].weight), list, diff, k + 1)
    ELSE acc

\* variant: the two unequal arms exchanged (continue on Less, break on Greater)
RECURSIVE ScanSelfUpward(_, _, _, _)
ScanSelfUpward(acc, list, diff, k) ==
    IF k > Len(list) THEN acc
    ELSE IF list[k].start_rel_position < diff THEN ScanSelfUpward(acc, list, diff, k + 1)
    ELSE IF list[k].start_rel_position = diff THEN ZipAdd(acc, list[k].weight)
    ELSE acc

\* the scan of one self-weight list: continue on Greater, add and break on
\* Equal, break on Less
RECURSIVE ScanSelf(_, _, _, _)
ScanSelf(acc, list, diff, k) ==
    IF k > Len(list) THEN acc
    ELSE IF list[k].start_rel_position > diff THEN ScanSelf(acc, list, diff, k + 1)
    ELSE IF list[k].start_rel_position = diff THEN ZipAdd(acc, list[k].weight)
    ELSE acc

ApplySelf(acc, slot, diff) ==
    IF slot = None THEN acc ELSE ScanSelf(acc, slot[1], diff, 1)

\* variant: the row after the token's last character
RightRowAfter(i) == i + 1

\* the row of right_scores the loop's iteration i takes from
\* right_scores_iter, which starts at the first chunk
RightRowOfGap(i) == i

\* the row the call after the loop takes, after iters iterations
RightRowOfLast(iters) == iters

\* Iterator::max_by_key over scores zipped with tag_names: the index
\* (1-based) of the element returned; the last one among equal maxima
RECURSIVE MaxByKeyFrom(_, _, _, _)
MaxByKeyFrom(scores, len, k, best) ==
    IF k > len THEN best
    ELSE MaxByKeyFrom(scores, len, k + 1,
                      IF scores[k] >= scores[best] THEN k ELSE best)

\* variant: the first among equal maxima
RECURSIVE MaxFirstFrom(_, _, _, _)
MaxFirstFrom(scores, len, k, best) ==
    IF k > len THEN best
    ELSE MaxFirstFrom(scores, len, k + 1,
                      IF scores[k] > scores[best] THEN k ELSE best)

BestTagIndexFirst(scores, names) ==
    MaxFirstFrom(scores, Min(Len(scores), Len(names)), 2, 1)

BestTagIndex(scores, names) ==
    MaxByKeyFrom(scores, Min(Len(scores), Len(names)), 2, 1)

BestTag(p, scores) == p.tag_names[BestTagIndex(scores, p.tag_names)]

\* tags after the emptiness test of lines 173-175
TagsResized(s) ==
    IF s.tags = <<>> THEN [k \in 1..Len(s.chars) |-> None] ELSE s.tags

\* number of iterations of the zipped loop
LoopIters(p, s, tags0) ==
    LET T == Len(p.tag_names)
    IN  Min(Len(s.boundaries),
        Min(NumChunks(s.tag_scores.left_scores, T) - 1,
        Min(NumChunks(s.tag_scores.right_scores, T),
        Min(Len(s.tag_scores.self_scores), Len(tags0)))))

\* loop state: acc (tag_score), last (last_boundary_idx), tags
RECURSIVE FillLoop(_, _, _, _, _)
FillLoop(p, s, st, i, iters) ==
    IF i >= iters THEN st
    ELSE IF s.boundaries[i + 1] = "WordBoundary"
    THEN LET T    == Len(p.tag_names)
             acc1 == ZipAdd(st.acc, Chunk(s.tag_scores.right_scores, T, RightRowOfGap(i)))
             acc2 == ApplySelf(acc1, s.tag_scores.self_scores[i + 1], st.last - i - 1)
         IN  FillLoop(p, s,
                 [acc  |-> ZipReset(acc2, Chunk(s.tag_scores.left_scores, T, i + 1),
                                    p.tag_bias),
                  last |-> i + 1,
                  tags |-> [st.tags EXCEPT ![i + 1] = Some(BestTag(p, acc2))],
                  accs |-> [st.accs EXCEPT ![i + 1] = Some(acc2)]],
                 i + 1, iters)
    ELSE FillLoop(p, s, st, i + 1, iters)

\* the panic fill_tags ends in, or "none"
FillTagsFault(p, s) ==
    LET T == Len(p.tag_names)
        tags0 == TagsResized(s)
    IN  IF T = 0 THEN "none"
        ELSE IF NumChunks(s.tag_scores.left_scores, T) = 0
        THEN "unwrap_none:left_scores_iter.next()"
        ELSE IF NumChunks(s.tag_scores.right_scores, T) <= RightRowOfLast(LoopIters(p, s, tags0))
        THEN "unwrap_none:right_scores_iter.next()"
        ELSE IF Len(s.tag_scores.self_scores) = 0
        THEN "unwrap_none:self_scores.last()"
        ELSE IF Len(tags0) = 0
        THEN "unwrap_none:tags.last_mut()"
        ELSE "none"

\* the loop and the final token; accs records, per character, the
\* accumulator the tag of the token ending there was chosen from
FillTagsRun(p, s) ==
    LET T     == Len(p.tag_names)
        tags0 == TagsResized(s)
        iters == LoopIters(p, s, tags0)
        st0   == [acc  |-> ZipAdd(p.tag_bias, Chunk(s.tag_scores.left_scores, T, 0)),
                  last |-> 0,
                  tags |-> tags0,
                  accs |-> [k \in 1..Len(tags0) |-> None]]
        st1   == FillLoop(p, s, st0, 0, iters)
        acc1  == ZipAdd(st1.acc, Chunk(s.tag_scores.right_scores, T, RightRowOfLast(iters)))
        acc2  == ApplySelf(acc1, s.tag_scores.self_scores[Len(s.tag_scores.self_scores)],
                           st1.last - Len(s.chars))
    IN  [tags |-> [st1.tags EXCEPT ![Len(st1.tags)] = Some(BestTag(p, acc2))],
         accs |-> [st1.accs EXCEPT ![Len(st1.accs)] = Some(acc2)]]

\* variant: the tags vector is sized before the early return
FillTagsResizeFirst(p, s) ==
    IF p.tag_names = <<>> THEN [s EXCEPT !.tags = TagsResized(s)]
    ELSE [s EXCEPT !.tags = FillTagsRun(p, s).tags]

FillTagsResult(p, s) ==
    IF p.tag_names = <<>> THEN s
    ELSE [s EXCEPT !.tags = FillTagsRun(p, s).tags]

(***************************************************************************)
(* The models and texts the operations are run on.                         *)
(***************************************************************************)
Ramp(len, first, step) == [j \in 1..len |-> first + step * (j - 1)]

Ngram(p, w) == [ngram |-> p, weights |-> w]
Word(w, r, i, l) == [word |-> w, right |-> r, inside |-> i, left |-> l]
Class(n, b) == [name |-> n, bias |-> b]

NoTagModel ==
    [class_info |-> <<>>, left_char_model |-> <<>>,
     right_char_model |-> <<>>, self_char_model |-> <<>>]

\* weight vectors of the length the tests' models use, 2W - |p| + 1
CharNgrams(W) ==
    <<Ngram(<<"a">>, Ramp(NgramWeightLen(1, W), 1, -1)),
      Ngram(<<"a", "b">>, Ramp(NgramWeightLen(2, W), -2, 3))>>
TypeNgrams(W) ==
    <<Ngram(<<"K">>, Ramp(NgramWeightLen(1, W), -1, 1)),
      Ngram(<<"H", "K">>, Ramp(NgramWeightLen(2, W), 2, -2))>>
\* weight vectors of length 2W + |p| - 1
LongCharNgrams(W) ==
    <<Ngram(<<"a">>, Ramp(2 * W, 1, -1)),
      Ngram(<<"a", "b">>, Ramp(2 * W + 1, -2, 3))>>
LongTypeNgrams(W) ==
    <<Ngram(<<"H", "K">>, Ramp(2 * W + 1, 2, -2))>>

Dict == <<Word(<<"b">>, 1, 5, -1), Word(<<"a", "b">>, 2, -3, 1)>>

TagModel2 ==
    [class_info |-> <<Class("N", 1), Class("V", 0)>>,
     left_char_model |-> <<Ngram(<<"a">>, <<0, 1, 1, 0>>), Ngram(<<NUL, "b">>, <<1, 0>>)>>,
     right_char_model |-> <<Ngram(<<"b">>, <<0, 1, 2, 0>>), Ngram(<<"a", NUL>>, <<0, 0, 1, 1>>)>>,
     self_char_model |-> <<Ngram(<<"a">>, <<0, 2>>), Ngram(<<"b", "a">>, <<3, 0>>)>>]

TagModel3 ==
    [class_info |-> <<Class("N", 1), Class("V", 1), Class("P", 0)>>,
     left_char_model |-> <<Ngram(<<"b">>, <<0, 0, 1, 1, 0, 0>>)>>,
     right_char_model |-> <<Ngram(<<"a">>, <<0, 1, 1, 1, 0, 2>>)>>,
     self_char_model |-> <<Ngram(<<"a", "b">>, <<0, 0, 2>>), Ngram(<<"b">>, <<1, 0, 0>>)>>]

MkModel(b, cw, tw, cn, tn, d, tm) ==
    [bias |-> b, char_window_size |-> cw, type_window_size |-> tw,
     char_ngram_model |-> cn, type_ngram_model |-> tn,
     dict_model |-> d, tag_model |-> tm]

\* windows at the width of the trailing guard region, and one beyond it
WideModels ==
    { MkModel(0, cw, 1, <<Ngram(<<"a">>, Ramp(NgramWeightLen(1, cw), 1, 1))>>,
              TypeNgrams(1), <<>>, NoTagModel)
        : cw \in {SIMD_SIZE - 1, SIMD_SIZE} }

\* windows and bias vary where the boundary scores are at stake
Models ==
    WideModels \cup
    { MkModel(0, cw, tw, CharNgrams(cw), TypeNgrams(tw), Dict, NoTagModel)
        : cw \in Windows, tw \in Windows }
    \cup { MkModel(b, 1, 1, CharNgrams(1), TypeNgrams(1), Dict, NoTagModel)
        : b \in Biases }
    \cup { MkModel(0, 1, 1, <<>>, TypeNgrams(1), <<>>, TagModel3) }
    \cup UNION {
        { MkModel(0, cw, 1, CharNgrams(cw), <<>>, <<>>, TagModel2),
          MkModel(0, cw, 1, LongCharNgrams(cw), TypeNgrams(1), Dict, NoTagModel),
          MkModel(0, 1, cw, CharNgrams(1), LongTypeNgrams(cw), <<>>, NoTagModel) }
        : cw \in Windows }

\* the labels a boundary post-processor writes
EditLabels == {"WordBoundary", "NotWordBoundary"}

(***************************************************************************)
(* The state machine.                                                      *)
(***************************************************************************)
Init ==
    /\ model = MkModel(0, 0, 0, <<>>, <<>>, <<>>, NoTagModel)
    /\ predict_tags = FALSE
    /\ status = "unbuilt"
    /\ predictor = NoPredictor
    /\ has_sentence = FALSE
    /\ sentence = NoSentence
    /\ ys = <<>>
    /\ accs = <<>>
    /\ last_op = "none"
    /\ fault = "none"
    /\ raw_text = <<>>
    /\ preprocessed = <<>>
    /\ filtered = <<>>

\* Predictor::new(model, predict_tags), the model drawn from MS
NewFrom(MS) ==
    /\ status = "unbuilt"
    /\ \E m \in MS, pt \in BOOLEAN :
        /\ model' = m
        /\ predict_tags' = pt
        /\ IF NewOk(m, pt)
           THEN status' = "ok" /\ predictor' = NewPredictor(m, pt)
           ELSE status' = "err" /\ predictor' = NoPredictor
    /\ last_op' = "new"
    /\ UNCHANGED <<has_sentence, sentence, ys, accs, fault,
                 raw_text, preprocessed, filtered>>

New == NewFrom(Models)

\* Sentence::from_raw(text), the text drawn from TS
FromRawFrom(TS) ==
    /\ status = "ok"
    /\ ~has_sentence
    /\ \E text \in TS : sentence' = FromRawSentence(text)
    /\ has_sentence' = TRUE
    /\ last_op' = "from_raw"
    /\ UNCHANGED <<model, predict_tags, status, predictor, ys, accs, fault,
                 raw_text, preprocessed, filtered>>

FromRaw == FromRawFrom(Texts)

Ready == status = "ok" /\ has_sentence /\ fault = "none"

\* Predictor::predict(sentence)
Predict ==
    /\ Ready
    /\ sentence' = PredictResult(predictor, sentence)
    /\ ys' = ScoreYs(predictor, sentence)
    /\ last_op' = "predict"
    /\ accs' = <<>>
    /\ UNCHANGED <<model, predict_tags, status, predictor, has_sentence, fault,
                 raw_text, preprocessed, filtered>>

\* Predictor::predict_with_score(sentence)
PredictWithScore ==
    /\ Ready
    /\ sentence' = PredictWithScoreResult(predictor, sentence)
    /\ ys' = ScoreYs(predictor, sentence)
    /\ last_op' = "predict_with_score"
    /\ accs' = <<>>
    /\ UNCHANGED <<model, predict_tags, status, predictor, has_sentence, fault,
                 raw_text, preprocessed, filtered>>

\* Predictor::fill_tags(sentence)
FillTags ==
    /\ Ready
    /\ LET f == FillTagsFault(predictor, sentence)
       IN  /\ fault' = f
           /\ IF f = "none"
              THEN /\ sentence' = FillTagsResult(predictor, sentence)
                   /\ accs' = IF predictor.tag_names = <<>> THEN <<>>
                              ELSE FillTagsRun(predictor, sentence).accs
              ELSE sentence' = sentence /\ accs' = <<>>
    /\ ys' = <<>>
    /\ last_op' = "fill_tags"
    /\ UNCHANGED <<model, predict_tags, status, predictor, has_sentence,
                 raw_text, preprocessed, filtered>>

\* the caller's edit of one label through boundaries_mut()
SetBoundary ==
    /\ has_sentence
    /\ fault = "none"
    /\ \E i \in 1..Len(sentence.boundaries), b \in EditLabels :
        /\ sentence.boundaries[i] # b
        /\ sentence' = [sentence EXCEPT !.boundaries[i] = b]
    /\ ys' = <<>>
    /\ accs' = <<>>
    /\ last_op' = "boundaries_mut"
    /\ UNCHANGED <<model, predict_tags, status, predictor, has_sentence, fault,
                 raw_text, preprocessed, filtered>>

Next == New \/ FromRaw \/ Predict \/ PredictWithScore \/ FillTags \/ SetBoundary

Spec == Init /\ [][Next]_vars

(***************************************************************************)
(* Properties.  The sums below are written per gap, from the model and the *)
(* text alone, without the padded vector.                                  *)
(***************************************************************************)
RECURSIVE SeqSum(_)
SeqSum(q) == IF q = <<>> THEN 0 ELSE q[1] + SeqSum(Tail(q))

NumChars == Len(sentence.chars)
Gaps == 0..(NumChars - 2)
Ends == 0..(NumChars - 1)

\* what the matches of the n-grams in data, under window W, add to gap g
NgramGapSum(data, h, W, g) ==
    SeqSum([k \in 1..Len(data) |->
        SeqSum([e1 \in 1..Len(h) |->
            LET e == e1 - 1
                j == g - (e - W)
            IN  IF IsMatch(data[k].ngram, h, e) /\ j \in 0..(Len(data[k].weights) - 1)
                THEN data[k].weights[j + 1] ELSE 0] \o <<>>)] \o <<>>)

\* what the matches of the dictionary words add to gap g
DictGapSum(dict, h, g) ==
    SeqSum([k \in 1..Len(dict) |->
        SeqSum([e1 \in 1..Len(h) |->
            LET e == e1 - 1
                len == Len(dict[k].word)
            IN  IF ~IsMatch(dict[k].word, h, e) THEN 0
                ELSE IF g = e - len THEN dict[k].right
                ELSE IF g = e THEN dict[k].left
                ELSE IF g > e - len /\ g < e THEN dict[k].inside
                ELSE 0] \o <<>>)] \o <<>>)

CharGap(g) == NgramGapSum(model.char_ngram_model, sentence.chars, model.char_window_size, g)
DictGap(g) == DictGapSum(model.dict_model, sentence.chars, g)
TypeGap(g) == NgramGapSum(model.type_ngram_model, sentence.char_types, model.type_window_size, g)

Predicted == last_op \in {"predict", "predict_with_score"}

\* the padded entry of gap i
GapScore(i) == ys[predictor.padding + i + 1]

\* C1: after predict or predict_with_score every gap i is labelled
\* WordBoundary exactly when its final score ys[padding + i] is >= 0, a
\* score of exactly 0 included, and NotWordBoundary otherwise.
C1_Threshold ==
    Predicted =>
        \A i \in Gaps :
            /\ (sentence.boundaries[i + 1] = "WordBoundary") <=> (GapScore(i) >= 0)
            /\ (GapScore(i) < 0) <=> (sentence.boundaries[i + 1] = "NotWordBoundary")

\* a prediction that left a gap with score exactly 0, reached from a
\* non-zero bias, beside a gap with a negative score
C1_Witness ==
    /\ last_op = "predict"
    /\ predictor.bias # 0
    /\ \E i, j \in Gaps :
        /\ GapScore(i) = 0 /\ sentence.boundaries[i + 1] = "WordBoundary"
        /\ GapScore(j) < 0 /\ sentence.boundaries[j + 1] = "NotWordBoundary"

\* C2: after predict_with_score, boundary_scores[i] is the bias plus the
\* char-n-gram, dictionary and type-n-gram contributions that land on gap i,
\* and nothing else: writes into the guard regions change no gap's score.
C2_Additivity ==
    last_op = "predict_with_score" =>
        \A i \in Gaps :
            sentence.boundary_scores[i + 1]
                = model.bias + CharGap(i) + DictGap(i) + TypeGap(i)

\* all three families contribute to one gap, and the leading guard region
\* was written to (its first entry no longer holds the bias)
C2_Witness ==
    /\ last_op = "predict_with_score"
    /\ \E i \in Gaps : CharGap(i) # 0 /\ DictGap(i) # 0 /\ TypeGap(i) # 0
    /\ \E k \in 1..predictor.padding : ys[k] # predictor.bias

\* C3: after predict_with_score, boundary_scores has exactly n - 1 entries
\* and entry i is the padded entry ys[padding + i] of the scoring pass.
C3_Trimmed ==
    last_op = "predict_with_score" =>
        /\ Len(sentence.boundary_scores) = NumChars - 1
        /\ \A i \in Gaps : sentence.boundary_scores[i + 1] = GapScore(i)

\* a trimmed vector of two or more gaps whose padded original had guard
\* entries different from the scores of the gaps
C3_Witness ==
    /\ last_op = "predict_with_score"
    /\ NumChars >= 3
    /\ Len(sentence.boundary_scores) = 2
    /\ ys[1] # GapScore(0)
    /\ ys[Len(ys) - SIMD_SIZE + 2] # GapScore(NumChars - 2)

\* C4: with a built Predictor and a sentence of n >= 1 characters, no call
\* of predict, predict_with_score or fill_tags ends in a panic, whatever
\* calls came before (none included).
C4_NoFault == fault = "none"

(***************************************************************************)
(* Tokens, read off the labels: the token ending at character i starts     *)
(* after the last WordBoundary before i.                                   *)
(***************************************************************************)
IsBoundary(g) == sentence.boundaries[g + 1] = "WordBoundary"
EndsToken(i) == i = NumChars - 1 \/ IsBoundary(i)

RECURSIVE TokenStart(_)
TokenStart(i) == IF i = 0 \/ IsBoundary(i - 1) THEN i ELSE TokenStart(i - 1)

NumTags == Len(predictor.tag_names)
LeftRow(r) == SubSeq(sentence.tag_scores.left_scores, r * NumTags + 1, (r + 1) * NumTags)
\* a row past the last one counts as zeros
RightRow(r) ==
    IF (r + 1) * NumTags <= Len(sentence.tag_scores.right_scores)
    THEN SubSeq(sentence.tag_scores.right_scores, r * NumTags + 1, (r + 1) * NumTags)
    ELSE [t \in 1..NumTags |-> 0]

\* the self-weight the token ending at i receives
SelfPart(i) ==
    ApplySelf([t \in 1..NumTags |-> 0], sentence.tag_scores.self_scores[i + 1],
              TokenStart(i) - i - 1)

\* the accumulator of the token ending at i, were right row r added to it
TokenAcc(i, r) ==
    [t \in 1..NumTags |->
        predictor.tag_bias[t] + LeftRow(TokenStart(i))[t] + RightRow(r)[t]
            + SelfPart(i)[t]]

Filled == last_op = "fill_tags" /\ fault = "none" /\ predictor.tag_names # <<>>

\* C5 (as claimed): the accumulator of the token ending at character i
\* holds right_scores.row(i + 1), row n for the final token.
C5_RowAfter ==
    Filled =>
        \A i \in Ends :
            EndsToken(i) => accs[i + 1] = Some(TokenAcc(i, i + 1))

\* C5 (amended): the accumulator of the token ending at character i holds
\* right_scores.row(i): row i for a token closed by boundaries[i], and row
\* n - 1 for the final token.
C5_RowOfLastChar ==
    Filled =>
        \A i \in Ends :
            EndsToken(i) => accs[i + 1] = Some(TokenAcc(i, i))

\* fill_tags ran over two or more tokens, and for one closed by a
\* WordBoundary rows i and i + 1 of right_scores differ
C5_Witness ==
    /\ Filled
    /\ \E i \in Gaps : IsBoundary(i) /\ RightRow(i) # RightRow(i + 1)
    /\ RightRow(NumChars - 1) # [t \in 1..NumTags |-> 0]

MaxOf(acc) == CHOOSE x \in {acc[t] : t \in 1..Len(acc)} : \A t \in 1..Len(acc) : acc[t] <= x
MaxIndices(acc) == {t \in 1..Len(acc) : acc[t] = MaxOf(acc)}
Lowest(S) == CHOOSE t \in S : \A u \in S : t <= u
Highest(S) == CHOOSE t \in S : \A u \in S : u <= t

\* C6 (as claimed): among the classes sharing the maximum accumulated
\* score the tag of the lowest class index is assigned.
C6_LowestIndex ==
    Filled =>
        \A i \in Ends :
            accs[i + 1] # None =>
                sentence.tags[i + 1]
                    = Some(predictor.tag_names[Lowest(MaxIndices(accs[i + 1][1]))])

\* C6 (amended): among the classes sharing the maximum accumulated score
\* the tag of the highest class index (the last in class_info order) is
\* assigned.
C6_HighestIndex ==
    Filled =>
        \A i \in Ends :
            accs[i + 1] # None =>
                sentence.tags[i + 1]
                    = Some(predictor.tag_names[Highest(MaxIndices(accs[i + 1][1]))])

\* a token whose maximum is shared by two classes, beside one of three
\* classes where the tie excludes the last class
C6_Witness ==
    /\ Filled
    /\ \E i \in Ends :
        /\ accs[i + 1] # None
        /\ Cardinality(MaxIndices(accs[i + 1][1])) >= 2
        /\ Highest(MaxIndices(accs[i + 1][1])) < NumTags

\* C7: after fill_tags on a predictor with tags, tags has n entries and
\* tags[i] is non-null only where character i ends a token.
C7_OnlyTokenEnds ==
    Filled =>
        /\ Len(sentence.tags) = NumChars
        /\ \A i \in Ends : sentence.tags[i + 1] # None => EndsToken(i)

\* C8: fill_tags on a predictor without tag classes (predict_tags false, or
\* true with an empty class_info) returns the sentence unchanged.
C8_NoTagsNoChange ==
    [][(last_op' = "fill_tags" /\ predictor.tag_names = <<>>)
        => (sentence' = sentence /\ fault' = "none")]_vars

\* fill_tags returned on a predictor built with predict_tags = true from an
\* empty class_info, on a sentence that had been predicted
C8_Witness ==
    /\ last_op = "fill_tags"
    /\ fault = "none"
    /\ predict_tags
    /\ model.tag_model.class_info = <<>>
    /\ predictor.tag_names = <<>>
    /\ sentence.tag_scores.self_scores # <<>>
    /\ sentence.tags = <<>>

IsTagScorer == predictor.char_scorer.kind = "BoundaryAndTags"

\* C9 (as claimed): the tag-capable scorer is built iff predict_tags is
\* true and class_info is non-empty.
C9_TagScorerIffClasses ==
    status = "ok" =>
        (IsTagScorer <=> (predict_tags /\ model.tag_model.class_info # <<>>))

\* C9 (amended): the tag-capable scorer is built iff predict_tags is true,
\* whether or not class_info is empty.
C9_TagScorerIffFlag ==
    status = "ok" => (IsTagScorer <=> predict_tags)

\* built with predict_tags = true from an empty class_info
C9_Witness ==
    /\ status = "ok"
    /\ predict_tags
    /\ model.tag_model.class_info = <<>>
    /\ IsTagScorer
    /\ predictor.char_scorer.n_tags = 0

\* some weight vector of data is not of length 2W + |p| - 1
SomeLenNotSum(data, W) ==
    \E k \in 1..Len(data) : Len(data[k].weights) # 2 * W + Len(data[k].ngram) - 1
\* some weight vector of data is not of length 2W - |p| + 1
SomeLenNotFit(data, W) ==
    \E k \in 1..Len(data) : Len(data[k].weights) # 2 * W - Len(data[k].ngram) + 1

ScanModel == MkModel(0, 1, 1, <<>>, <<>>, <<>>, TagModel2)

ScanWeight(k) == <<2 ^ (2 * k - 2), 2 ^ (2 * k - 1)>>

RECURSIVE RelSeqsUpTo(_)
RelSeqsUpTo(k) ==
    IF k = 0 THEN {<<>>}
    ELSE LET S == RelSeqsUpTo(k - 1)
         IN  S \cup {Append(q, r) : q \in {t \in S : Len(t) = k - 1},
                                    r \in (0 - MaxLen)..(0 - 1)}

ScanLists ==
    { [k \in 1..Len(q) |-> [start_rel_position |-> q[k], weight |-> ScanWeight(k)]]
        : q \in RelSeqsUpTo(MaxList) }

ScanSentence(n, j, list) ==
    [FromRawSentence([k \in 1..n |-> "a"]) EXCEPT
        !.tag_scores = [TagScoresInit(n, Len(ClassNames(ScanModel))) EXCEPT
                            !.self_scores[j] = Some(list)]]

InitScan ==
    /\ model = ScanModel
    /\ predict_tags = TRUE
    /\ status = "ok"
    /\ predictor = NewPredictor(ScanModel, TRUE)
    /\ has_sentence = TRUE
    /\ \E n \in 1..MaxLen : \E j \in 1..n : \E list \in ScanLists :
            sentence = ScanSentence(n, j, list)
    /\ ys = <<>>
    /\ accs = <<>>
    /\ last_op = "none"
    /\ fault = "none"
    /\ raw_text = <<>>
    /\ preprocessed = <<>>
    /\ filtered = <<>>

NextScan == FillTags \/ SetBoundary

SpecScan == InitScan /\ [][NextScan]_vars

\* the accumulator of the token ending at i before the self-weights
TokenBase(i) ==
    [t \in 1..NumTags |->
        predictor.tag_bias[t] + LeftRow(TokenStart(i))[t] + RightRow(i)[t]]

\* the list fill_tags examines for the token ending at i, and its diff
TokenList(i) ==
    IF sentence.tag_scores.self_scores[i + 1] = None THEN <<>>
    ELSE sentence.tag_scores.self_scores[i + 1][1]
TokenDiff(i) == TokenStart(i) - i - 1

VecAdd(a, b) == [t \in 1..Len(a) |-> a[t] + b[t]]

\* the entries of the list whose start_rel_position is diff
Hits(list, diff) == {k \in 1..Len(list) : list[k].start_rel_position = diff}

\* the accumulator is the base with exactly entry k of the list added
AddedExactly(i, k) ==
    accs[i + 1] = Some(VecAdd(TokenBase(i), TokenList(i)[k].weight))
AddedNone(i) == accs[i + 1] = Some(TokenBase(i))

\* C11: for every token ending at character i, the accumulator holds the
\* base (bias, left row, right row) plus at most one entry of the list on
\* slot i, and an entry only if its start_rel_position equals diff =
\* last_boundary_idx - i - 1; whatever the content and order of the list.
C11_SingleHit ==
    Filled =>
        \A i \in Ends :
            EndsToken(i) =>
                \/ AddedNone(i)
                \/ \E k \in Hits(TokenList(i), TokenDiff(i)) : AddedExactly(i, k)

\* a token whose list holds two entries with start_rel_position = diff, of
\* which the first, and it alone, was added
C11_Witness ==
    /\ Filled
    /\ \E i \in Ends :
        /\ EndsToken(i)
        /\ Cardinality(Hits(TokenList(i), TokenDiff(i))) >= 2
        /\ AddedExactly(i, Lowest(Hits(TokenList(i), TokenDiff(i))))

\* the sentence a caller who never ran fill_tags holds, with the same
\* boundaries and tag_scores
WithoutHistory(s) == [s EXCEPT !.tags = <<>>, !.boundary_scores = <<>>]

\* C12: fill_tags is a function of boundaries, tag_scores, tag_bias and
\* tag_names alone: the tags it returns are those it returns for a sentence
\* with the same boundaries and tag_scores and no earlier history.
C12_TagsPure ==
    Filled => sentence.tags = FillTagsResult(predictor, WithoutHistory(sentence)).tags

\* the trimmed scores of the pipeline run with pad in place of padding:
\* vector of length (n - 1) + pad + SIMD_SIZE - 1, char scorer offset by
\* pad, type scorer on ys[pad..], rotate_left(pad), truncate(n - 1)
ScoresWithPadding(p, s, pad) ==
    LET q == [p EXCEPT !.padding = pad]
    IN  Truncate(RotateLeft(ScoreYs(q, s), pad), Len(s.boundaries))

LabelsOf(scores) == [i \in 1..Len(scores) |-> Threshold(scores[i])]

\* C13: for every padding' >= max(char_window_size, type_window_size) the
\* pipeline run with padding' yields, after trimming, the boundary_scores
\* predict_with_score returned, and so the same boundaries.
C13_PaddingInert ==
    last_op = "predict_with_score" =>
        \A d \in 0..MaxWindow :
            LET pad == Max(model.char_window_size, model.type_window_size) + d
            IN  /\ ScoresWithPadding(predictor, sentence, pad) = sentence.boundary_scores
                /\ LabelsOf(ScoresWithPadding(predictor, sentence, pad)) = sentence.boundaries

\* a prediction with unequal windows, char and type contributions on one
\* gap and a leading guard region that was written to, whose scores a
\* padding larger by one leaves as they are
C13_Witness ==
    /\ last_op = "predict_with_score"
    /\ model.type_window_size < model.char_window_size
    /\ \E i \in Gaps : CharGap(i) # 0 /\ TypeGap(i) # 0
    /\ \E k \in 1..predictor.padding : ys[k] # predictor.bias
    /\ ScoresWithPadding(predictor, sentence, predictor.padding + 1) = sentence.boundary_scores

\* the ranges <<first index, length>> the matches of the n-grams in data
\* address, in a vector whose entry off is gap 0
NgramWrites(data, h, W, off) ==
    { <<NgramStart(x[2], Len(data[x[1]].ngram), W) + off, Len(data[x[1]].weights)>> :
        x \in { y \in (1..Len(data)) \X (0..(Len(h) - 1)) :
                    IsMatch(data[y[1]].ngram, h, y[2]) } }

\* char scorer: indices in ys;  type scorer: indices in the slice ys[padding..]
CharWrites ==
    NgramWrites(predictor.char_scorer.ngrams, sentence.chars,
                predictor.char_scorer.window_size, predictor.padding)
TypeWrites ==
    NgramWrites(predictor.type_scorer.ngrams, sentence.char_types,
                predictor.type_scorer.window_size, 0)

BufferLen == Len(ys)
SliceLen == Len(ys) - TypeSliceStart(predictor)

Reverse(q) == [k \in 1..Len(q) |-> q[Len(q) + 1 - k]]

\* the scoring pass with the type scorer run before the char scorer
ScoreYsTypeFirst(p, s) ==
    LET ys0 == [k \in 1..YsSize(p, s) |-> p.bias]
        st  == TypeSliceStart(p)
        ys1 == SubSeq(ys0, 1, st)
                 \o TypeScorerAddScores(p.type_scorer, s, SubSeq(ys0, st + 1, Len(ys0)))
    IN  CharScorerAddScores(p.char_scorer, s, p.padding, ys1)

\* the scoring pass with the dictionary matches applied before the n-gram
\* matches, the type scorer in between, and every pattern list walked from
\* its end
ScoreYsPermuted(p, s) ==
    LET ys0 == [k \in 1..YsSize(p, s) |-> p.bias]
        st  == TypeSliceStart(p)
        ys1 == DictModelAdd(ys0, Reverse(p.char_scorer.dict), s.chars, p.padding, 1)
        ys2 == SubSeq(ys1, 1, st)
                 \o NgramModelAdd(SubSeq(ys1, st + 1, Len(ys1)),
                                  Reverse(p.type_scorer.ngrams), s.char_types,
                                  p.type_scorer.window_size, 0, 1)
    IN  NgramModelAdd(ys2, Reverse(p.char_scorer.ngrams), s.chars,
                      p.char_scorer.window_size, p.padding, 1)

\* C15: the score vector does not depend on the order of application: the
\* type scorer before the char scorer, or the dictionary, type-n-gram and
\* char-n-gram matches in another order, give the same ys for every gap and
\* the same boundaries.
C15_OrderFree ==
    Predicted =>
        /\ ScoreYsTypeFirst(predictor, sentence) = ys
        /\ ScoreYsPermuted(predictor, sentence) = ys
        /\ LabelBoundaries(predictor, sentence, ScoreYsPermuted(predictor, sentence))
                = sentence.boundaries

\* a prediction in which two char n-grams, two dictionary words and a type
\* n-gram all contribute to one gap
C15_Witness ==
    /\ Predicted
    /\ \E i \in Gaps :
        /\ TypeGap(i) # 0
        /\ \A k \in 1..2 :
            /\ k <= Len(model.char_ngram_model)
            /\ NgramGapSum(<<model.char_ngram_model[k]>>, sentence.chars,
                           model.char_window_size, i) # 0
            /\ k <= Len(model.dict_model)
            /\ DictGapSum(<<model.dict_model[k]>>, sentence.chars, i) # 0

\* the 0-based indices of the last characters of the occurrences of word
MatchEnds(word) == {e \in Ends : IsMatch(word, sentence.chars, e)}

\* what the dictionary adds to gap i: the returned score less the score of
\* the same predictor without its dictionary
NoDict(p) == [p EXCEPT !.char_scorer.dict = <<>>]
DictPart(i) ==
    sentence.boundary_scores[i + 1]
        - ScoresWithPadding(NoDict(predictor), sentence, predictor.padding)[i + 1]

\* per word: right for every occurrence whose first character follows gap
\* i, left for every occurrence whose last character precedes gap i,
\* inside for every occurrence with gap i strictly inside it
WordPart(rec, i) ==
    LET k == Len(rec.word)
    IN  rec.right * Cardinality({e \in MatchEnds(rec.word) : e - k = i})
          + rec.left * Cardinality({e \in MatchEnds(rec.word) : e = i})
          + rec.inside * Cardinality({e \in MatchEnds(rec.word) : e - k < i /\ i < e})

\* C16: for every dictionary word of length k matched with its last
\* character at e, right is added to the gap before the word's first
\* character (gap e - k), left to the gap after its last character (gap
\* e), inside to each of the k - 1 gaps within the word (never for k = 1);
\* what falls outside the gaps 0..n-2 shows in no gap's score.
C16_DictPlacement ==
    last_op = "predict_with_score" =>
        \A i \in Gaps :
            DictPart(i) = SeqSum([k \in 1..Len(model.dict_model) |->
                                    WordPart(model.dict_model[k], i)] \o <<>>)

\* a word of two characters whose inside and left weights land on gaps of
\* the sentence and whose right weight falls before gap 0, and a word of
\* one character with both its right and left weights on gaps
C16_Witness ==
    /\ last_op = "predict_with_score"
    /\ \E k \in 1..Len(model.dict_model) :
        /\ Len(model.dict_model[k].word) = 2
        /\ model.dict_model[k].inside # 0
        /\ 1 \in MatchEnds(model.dict_model[k].word)
        /\ 1 \in Gaps
    /\ \E k \in 1..Len(model.dict_model) :
        /\ Len(model.dict_model[k].word) = 1
        /\ \E e \in MatchEnds(model.dict_model[k].word) : e - 1 \in Gaps /\ e \in Gaps

(***************************************************************************)
(* The tests' models and sentences.  Characters are written in Latin       *)
(* transcription: ware ra ha zen se kai no koku min for the sentence of    *)
(* test_predict_with_score_1, hito to hito wo tsu na gu hito for that of   *)
(* test_predict_with_score_5.                                              *)
(***************************************************************************)
SentenceA == <<"ware", "ra", "ha", "zen", "se", "kai", "no", "koku", "min">>

generate_model_1 ==
    MkModel(-200, 3, 2,
        <<Ngram(<<"ware", "ra">>, <<1, 2, 3, 4, 5>>),
          Ngram(<<"zen", "se", "kai">>, <<6, 7, 8, 9>>),
          Ngram(<<"koku", "min">>, <<10, 11, 12, 13, 14>>),
          Ngram(<<"se", "kai">>, <<15, 16, 17, 18, 19>>),
          Ngram(<<"kai">>, <<20, 21, 22, 23, 24, 25>>)>>,
        <<Ngram(<<"H">>, <<26, 27, 28, 29>>),
          Ngram(<<"K">>, <<30, 31, 32, 33>>),
          Ngram(<<"K", "H">>, <<34, 35, 36>>),
          Ngram(<<"H", "K">>, <<37, 38, 39>>)>>,
        <<Word(<<"zen", "se", "kai">>, 43, 44, 45),
          Word(<<"se", "kai">>, 43, 44, 45),
          Word(<<"se">>, 40, 41, 42)>>,
        NoTagModel)

SentenceE == <<"hito", "to", "hito", "wo", "tsu", "na", "gu", "hito">>

generate_model_5 ==
    MkModel(0, 2, 2,
        <<Ngram(<<"x", "x", "x", "x">>, <<0>>)>>,
        <<Ngram(<<"R", "R", "R", "R">>, <<0>>)>>,
        <<>>,
        [class_info |-> <<Class("noun", 5), Class("verb", 3), Class("particle", 1)>>,
         left_char_model |->
            <<Ngram(<<NUL, "hito">>, <<1, 2, 3, 4, 5, 6>>),
              Ngram(<<"hito">>, <<7, 8, 9, 10, 11, 12>>),
              Ngram(<<"tsu", "na", "gu">>, <<13, 14, 15, 16, 17, 18, 19, 20, 21>>),
              Ngram(<<"gu", "hito", NUL>>, <<22, 23, 24>>)>>,
         right_char_model |->
            <<Ngram(<<NUL, "hito", "to">>, <<25, 26, 27, 28, 29, 30>>),
              Ngram(<<"hito", "wo">>, <<31, 32, 33, 34, 35, 36, 37, 38, 39>>),
              Ngram(<<"wo">>, <<40, 41, 42, 43, 44, 45>>),
              Ngram(<<"hito", NUL>>, <<46, 47, 48, 49, 50, 51>>)>>,
         self_char_model |->
            <<Ngram(<<"hito">>, <<2, -1, -1>>),
              Ngram(<<"to">>, <<0, 0, 0>>),
              Ngram(<<"tsu", "na", "gu">>, <<0, 1, 0>>),
              Ngram(<<"wo">>, <<0, 0, 0>>)>>])

\* the slice test_predict_with_score_5 copies into boundaries_mut()
BoundariesE ==
    <<"WordBoundary", "WordBoundary", "WordBoundary", "WordBoundary",
      "NotWordBoundary", "NotWordBoundary", "WordBoundary">>

\* a sentence of a test, and its pieces of up to MaxLen characters
SubTexts(text) ==
    {text} \cup
    { SubSeq(text, i, j) : <<i, j>> \in
        { x \in (1..Len(text)) \X (1..Len(text)) :
            x[1] <= x[2] /\ x[2] - x[1] < MaxLen } }

\* the caller's edit of one label, on the short sentences
SetBoundaryShort ==
    /\ Len(sentence.chars) <= MaxLen
    /\ SetBoundary

\* boundaries_mut().copy_from_slice(slice); the lengths must agree
CopyFromSlice(slice) ==
    /\ has_sentence
    /\ fault = "none"
    /\ Len(sentence.boundaries) = Len(slice)
    /\ sentence' = [sentence EXCEPT !.boundaries = slice]
    /\ ys' = <<>>
    /\ accs' = <<>>
    /\ last_op' = "boundaries_mut"
    /\ UNCHANGED <<model, predict_tags, status, predictor, has_sentence, fault,
                 raw_text, preprocessed, filtered>>

NextA ==
    \/ NewFrom({generate_model_1})
    \/ FromRawFrom(SubTexts(SentenceA))
    \/ Predict \/ PredictWithScore \/ FillTags \/ SetBoundaryShort

SpecA == Init /\ [][NextA]_vars

NextE ==
    \/ NewFrom({generate_model_5})
    \/ FromRawFrom(SubTexts(SentenceE))
    \/ Predict \/ PredictWithScore \/ FillTags \/ SetBoundaryShort
    \/ CopyFromSlice(BoundariesE)

SpecE == Init /\ [][NextE]_vars

WB == "WordBoundary"
NB == "NotWordBoundary"

\* C17 (scenario A): Predictor::new succeeds on generate_model_1 (bias
\* -200, char window 3, type window 2), and predict_with_score on the
\* sentence of nine characters yields boundary_scores [-77, -5, 45, 132,
\* 133, 144, 50, -32] and boundaries [N, N, B, B, B, B, B, N].
C17_ScenarioA ==
    /\ (model = generate_model_1 /\ status # "unbuilt") => status = "ok"
    /\ (model = generate_model_1 /\ sentence.chars = SentenceA
            /\ last_op = "predict_with_score")
        => /\ sentence.boundary_scores = <<-77, -5, 45, 132, 133, 144, 50, -32>>
           /\ sentence.boundaries = <<NB, NB, WB, WB, WB, WB, WB, NB>>

\* predict_with_score has run on the sentence of scenario A
C17_Witness ==
    /\ model = generate_model_1
    /\ status = "ok"
    /\ ~predict_tags
    /\ sentence.chars = SentenceA
    /\ last_op = "predict_with_score"
    /\ Len(sentence.boundary_scores) = 8

\* the tags at the last characters of the tokens, first token first
TokenTags ==
    LET ends == {i \in Ends : EndsToken(i)}
        nth[k \in 1..Cardinality(ends)] ==
            CHOOSE i \in ends : Cardinality({j \in ends : j < i}) = k - 1
    IN  [k \in 1..Cardinality(ends) |-> sentence.tags[nth[k] + 1]]

ScenarioE == model = generate_model_5 /\ predict_tags /\ sentence.chars = SentenceE

\* C18 (scenario E): with generate_model_5 (three classes, biases 5, 3,
\* 1, windows 2 and 2) predict leaves left_scores and right_scores equal to
\* the two 8 x 3 matrices of the test, and fill_tags on boundaries [B, B,
\* B, B, N, N, B] after that predict gives the six tokens the classes 0,
\* 2, 0, 2, 1, 0 (noun, particle, noun, particle, verb, noun), one tag per
\* token, at the token's last character.
C18_ScenarioE ==
    /\ (ScenarioE /\ last_op = "predict")
        => /\ sentence.tag_scores.left_scores =
                <<1, 2, 3, 11, 13, 15, 10, 11, 12, 7, 8, 9,
                  10, 11, 12, 13, 14, 15, 16, 17, 18, 41, 43, 45>>
           /\ sentence.tag_scores.right_scores =
                <<28, 29, 30, 71, 73, 75, 77, 79, 81, 37, 38, 39,
                  0, 0, 0, 0, 0, 0, 46, 47, 48, 49, 50, 51>>
    /\ (ScenarioE /\ last_op = "fill_tags" /\ sentence.boundaries = BoundariesE
            /\ sentence.tag_scores.self_scores # <<>>)
        => /\ fault = "none"
           /\ TokenTags =
                <<Some(predictor.tag_names[1]), Some(predictor.tag_names[3]),
                  Some(predictor.tag_names[1]), Some(predictor.tag_names[3]),
                  Some(predictor.tag_names[2]), Some(predictor.tag_names[1])>>
           /\ predictor.tag_names = <<"noun", "verb", "particle">>

\* fill_tags has run on the sentence of scenario E under the boundaries of
\* the test, the verb's tag on the last character of its three
C18_Witness ==
    /\ ScenarioE
    /\ status = "ok"
    /\ last_op = "fill_tags"
    /\ fault = "none"
    /\ sentence.boundaries = BoundariesE
    /\ sentence.tags[7] = Some("verb")
    /\ Len(sentence.tag_scores.left_scores) = 24

\* the characters of the token ending at i
TokenText(i) == SubSeq(sentence.chars, TokenStart(i) + 1, i + 1)

\* the weights of the self-model patterns that are the whole token
RECURSIVE SelfOfToken(_, _, _)
SelfOfToken(data, text, k) ==
    IF k > Len(data) THEN [t \in 1..NumTags |-> 0]
    ELSE LET rest == SelfOfToken(data, text, k + 1)
         IN  IF data[k].ngram = text THEN VecAdd(rest, data[k].weights) ELSE rest

Ascending(list) ==
    \A k \in 1..(Len(list) - 1) :
        list[k].start_rel_position <= list[k + 1].start_rel_position
Descending(list) ==
    \A k \in 1..(Len(list) - 1) :
        list[k].start_rel_position >= list[k + 1].start_rel_position

\* C20 (as claimed): the scan is complete for lists in ascending order of
\* start_rel_position: if such a list holds an entry with
\* start_rel_position = diff, the weight of one such entry is added.
C20_AscendingComplete ==
    Filled =>
        \A i \in Ends :
            (EndsToken(i) /\ Ascending(TokenList(i))
                /\ Hits(TokenList(i), TokenDiff(i)) # {})
            => \E k \in Hits(TokenList(i), TokenDiff(i)) : AddedExactly(i, k)

\* C20 (amended): the scan is complete for lists in descending order of
\* start_rel_position: if such a list holds an entry with
\* start_rel_position = diff, the weight of the first such entry is added,
\* once.
C20_DescendingComplete ==
    Filled =>
        \A i \in Ends :
            (EndsToken(i) /\ Descending(TokenList(i))
                /\ Hits(TokenList(i), TokenDiff(i)) # {})
            => AddedExactly(i, Lowest(Hits(TokenList(i), TokenDiff(i))))

\* a list in strictly descending order whose second entry has
\* start_rel_position = diff and was added, the first having been skipped
C20_Witness ==
    /\ Filled
    /\ \E i \in Ends :
        /\ EndsToken(i)
        /\ Len(TokenList(i)) >= 2
        /\ TokenList(i)[1].start_rel_position > TokenList(i)[2].start_rel_position
        /\ TokenList(i)[2].start_rel_position = TokenDiff(i)
        /\ AddedExactly(i, 2)

(***************************************************************************)
(* One sentence handed to more than one predictor: the program builds a    *)
(* predictor again (another model, or another predict_tags flag) and keeps *)
(* the sentence it holds.                                                  *)
(***************************************************************************)
RenewModels ==
    { MkModel(0, 1, 1, CharNgrams(1), TypeNgrams(1), <<>>, TagModel2),
      MkModel(-1, 1, 1, CharNgrams(1), <<>>, <<>>, TagModel3) }

\* a later Predictor::new(model, predict_tags), the model drawn from MS: the
\* predictor is replaced, the sentence stays as the earlier calls left it
Renew(MS) ==
    /\ Ready
    /\ \E m \in MS, pt \in BOOLEAN :
        /\ NewOk(m, pt)
        /\ NewPredictor(m, pt) # predictor
        /\ model' = m
        /\ predict_tags' = pt
        /\ predictor' = NewPredictor(m, pt)
    /\ ys' = <<>>
    /\ accs' = <<>>
    /\ last_op' = "new"
    /\ UNCHANGED <<status, has_sentence, sentence, fault,
                 raw_text, preprocessed, filtered>>

NextRenew ==
    \/ NewFrom(RenewModels)
    \/ Renew(RenewModels)
    \/ FromRawFrom(Texts)
    \/ Predict \/ PredictWithScore \/ SetBoundary

SpecRenew == Init /\ [][NextRenew]_vars

\* what the operation that ran last returns on a sentence constructed anew
\* from the same text
OnFreshSentence ==
    IF last_op = "predict"
    THEN PredictResult(predictor, FromRawSentence(sentence.chars))
    ELSE PredictWithScoreResult(predictor, FromRawSentence(sentence.chars))

\* C21: the result of predict / predict_with_score depends only on the
\* predictor and on the text: after either call, boundaries, boundary_scores
\* and tag_scores equal those the call returns on a sentence constructed
\* anew from the same text, whatever the sentence carried from earlier
\* calls, and no label is Unknown.
C21_HistoryFree ==
    Predicted =>
        /\ sentence.boundaries = OnFreshSentence.boundaries
        /\ sentence.boundary_scores = OnFreshSentence.boundary_scores
        /\ sentence.tag_scores = OnFreshSentence.tag_scores
        /\ \A i \in 1..Len(sentence.boundaries) : sentence.boundaries[i] # "Unknown"

(***************************************************************************)
(* The KyTea-style preprocessors (vaporetto_rules):                        *)
(* preprocess_kytea_style and KyteaFullwidthFilter::filter.  A string is   *)
(* the sequence of its characters (text.chars()), a character its Unicode  *)
(* code point; a match is its arms in source order, <<pattern, result>>,   *)
(* closed by the catch-all arm c => c.                                     *)
(***************************************************************************)
\* the arms of the match in preprocess_kytea_style
PreprocessArms ==
    <<
       <<97, 65345>>, <<98, 65346>>, <<99, 65347>>, <<100, 65348>>,
       <<101, 65349>>, <<102, 65350>>, <<103, 65351>>, <<104, 65352>>,
       <<105, 65353>>, <<106, 65354>>, <<107, 65355>>, <<108, 65356>>,
       <<109, 65357>>, <<110, 65358>>, <<111, 65359>>, <<112, 65360>>,
       <<113, 65361>>, <<114, 65362>>, <<115, 65363>>, <<116, 65364>>,
       <<117, 65365>>, <<118, 65366>>, <<119, 65367>>, <<120, 65368>>,
       <<121, 65369>>, <<122, 65370>>, <<65, 65313>>, <<66, 65314>>,
       <<67, 65315>>, <<68, 65316>>, <<69, 65317>>, <<70, 65318>>,
       <<71, 65319>>, <<72, 65320>>, <<73, 65321>>, <<74, 65322>>,
       <<75, 65323>>, <<76, 65324>>, <<77, 65325>>, <<78, 65326>>,
       <<79, 65327>>, <<80, 65328>>, <<81, 65329>>, <<82, 65330>>,
       <<83, 65331>>, <<84, 65332>>, <<85, 65333>>, <<86, 65334>>,
       <<87, 65335>>, <<88, 65336>>, <<89, 65337>>, <<90, 65338>>,
       <<48, 65296>>, <<49, 65297>>, <<50, 65298>>, <<51, 65299>>,
       <<52, 65300>>, <<53, 65301>>, <<54, 65302>>, <<55, 65303>>,
       <<56, 65304>>, <<57, 65305>>, <<40, 65288>>, <<41, 65289>>,
       <<123, 65371>>, <<125, 65373>>, <<60, 65308>>, <<62, 65310>>,
       <<65378, 12300>>, <<65379, 12301>>, <<91, 65339>>, <<93, 65341>>,
       <<45, 8722>>, <<65374, 12316>>, <<46, 12290>>, <<65293, 12540>>,
       <<47, 65295>>, <<95, 65343>>, <<44, 65292>>, <<37, 65285>>,
       <<63, 65311>>, <<65380, 12289>>, <<8213, 12540>>, <<34, 8221>>,
       <<39, 8217>>, <<65381, 12539>>, <<9472, 12540>>, <<43, 65291>>,
       <<58, 65306>>, <<8211, 12540>>, <<33, 65281>>, <<65377, 12290>>,
       <<38, 65286>>, <<42, 65290>>, <<64, 65312>>, <<61, 65309>>
    >>

\* the arms of the match in KyteaFullwidthFilter::filter
FilterArms ==
    <<
       <<97, 65345>>, <<98, 65346>>, <<99, 65347>>, <<100, 65348>>,
       <<101, 65349>>, <<102, 65350>>, <<103, 65351>>, <<104, 65352>>,
       <<105, 65353>>, <<106, 65354>>, <<107, 65355>>, <<108, 65356>>,
       <<109, 65357>>, <<110, 65358>>, <<111, 65359>>, <<112, 65360>>,
       <<113, 65361>>, <<114, 65362>>, <<115, 65363>>, <<116, 65364>>,
       <<117, 65365>>, <<118, 65366>>, <<119, 65367>>, <<120, 65368>>,
       <<121, 65369>>, <<122, 65370>>, <<65, 65313>>, <<66, 65314>>,
       <<67, 65315>>, <<68, 65316>>, <<69, 65317>>, <<70, 65318>>,
       <<71, 65319>>, <<72, 65320>>, <<73, 65321>>, <<74, 65322>>,
       <<75, 65323>>, <<76, 65324>>, <<77, 65325>>, <<78, 65326>>,
       <<79, 65327>>, <<80, 65328>>, <<81, 65329>>, <<82, 65330>>,
       <<83, 65331>>, <<84, 65332>>, <<85, 65333>>, <<86, 65334>>,
       <<87, 65335>>, <<88, 65336>>, <<89, 65337>>, <<90, 65338>>,
       <<48, 65296>>, <<49, 65297>>, <<50, 65298>>, <<51, 65299>>,
       <<52, 65300>>, <<53, 65301>>, <<54, 65302>>, <<55, 65303>>,
       <<56, 65304>>, <<57, 65305>>, <<40, 65288>>, <<41, 65289>>,
       <<123, 65371>>, <<125, 65373>>, <<60, 65308>>, <<62, 65310>>,
       <<65378, 12300>>, <<65379, 12301>>, <<91, 65339>>, <<93, 65341>>,
       <<45, 8722>>, <<65374, 12316>>, <<46, 12290>>, <<65293, 12540>>,
       <<47, 65295>>, <<95, 65343>>, <<44, 65292>>, <<37, 65285>>,
       <<63, 65311>>, <<65380, 12289>>, <<8213, 12540>>, <<34, 8221>>,
       <<39, 8217>>, <<65381, 12539>>, <<9472, 12540>>, <<43, 65291>>,
       <<58, 65306>>, <<8211, 12540>>, <<33, 65281>>, <<65377, 12290>>,
       <<38, 65286>>, <<42, 65290>>, <<64, 65312>>, <<61, 65309>>
    >>

\* match c { arms, c => c }: the first arm whose pattern is c, else c
RECURSIVE MatchFrom(_, _, _)
MatchFrom(arms, c, k) ==
    IF k > Len(arms) THEN c
    ELSE IF arms[k][1] = c THEN arms[k][2]
    ELSE MatchFrom(arms, c, k + 1)

\* variant: every printable ASCII character moved to its fullwidth form,
\* U+0021..U+007E to U+FF01..U+FF5E, in place of the table
PreprocessByOffset(string) ==
    [i \in 1..Len(string) |->
        IF string[i] \in 33..126 THEN string[i] + 65248 ELSE string[i]]

\* chars collected, each replaced by the match, collected into a String
preprocess_kytea_style(string) ==
    [i \in 1..Len(string) |-> MatchFrom(PreprocessArms, string[i], 1)]

filter(string) ==
    [i \in 1..Len(string) |-> MatchFrom(FilterArms, string[i], 1)]

\* the patterns of the arms, and every character the arms name
Patterns(arms) == {arms[k][1] : k \in 1..Len(arms)}
TableChars ==
    UNION {{arms[k][1], arms[k][2]} : arms \in {PreprocessArms, FilterArms},
                                      k \in 1..Len(PreprocessArms)}

\* characters no arm names: space, '#', U+3042, U+FF03
OtherChars == {32, 35, 12354, 65283}

\* 'a', '-', '#', U+FF0D, U+30FC, U+FF41
SampleChars == {97, 45, 35, 65293, 12540, 65345}

RECURSIVE StringsUpTo(_, _)
StringsUpTo(S, k) ==
    IF k = 0 THEN {<<>>}
    ELSE LET Q == StringsUpTo(S, k - 1)
         IN  Q \cup {Append(q, c) : q \in {t \in Q : Len(t) = k - 1}, c \in S}

\* every character by itself, and the strings over the sample
RuleTexts ==
    {<<c>> : c \in TableChars \cup OtherChars} \cup StringsUpTo(SampleChars, MaxLen)

InitRules ==
    /\ model = MkModel(0, 0, 0, <<>>, <<>>, <<>>, NoTagModel)
    /\ predict_tags = FALSE
    /\ status = "unbuilt"
    /\ predictor = NoPredictor
    /\ has_sentence = FALSE
    /\ sentence = NoSentence
    /\ ys = <<>>
    /\ accs = <<>>
    /\ last_op = "none"
    /\ fault = "none"
    /\ raw_text \in RuleTexts
    /\ preprocessed = <<>>
    /\ filtered = <<>>

\* the string the next call of a function is handed: the text, then the
\* function's own last result
Current(outs) == IF outs = <<>> THEN raw_text ELSE outs[Len(outs)]

\* preprocess_kytea_style(text)
PreprocessKyteaStyle ==
    /\ Len(preprocessed) < MaxRounds
    /\ preprocessed' = Append(preprocessed, preprocess_kytea_style(Current(preprocessed)))
    /\ last_op' = "preprocess_kytea_style"
    /\ UNCHANGED <<model, predict_tags, status, predictor, has_sentence, sentence,
                   ys, accs, fault, raw_text, filtered>>

\* KyteaFullwidthFilter.filter(string)
KyteaFullwidthFilter ==
    /\ Len(filtered) < MaxRounds
    /\ filtered' = Append(filtered, filter(Current(filtered)))
    /\ last_op' = "filter"
    /\ UNCHANGED <<model, predict_tags, status, predictor, has_sentence, sentence,
                   ys, accs, fault, raw_text, preprocessed>>

NextRules == PreprocessKyteaStyle \/ KyteaFullwidthFilter

SpecRules == InitRules /\ [][NextRules]_vars

\* out has as many characters as the text, and equals it wherever the
\* text's character is no pattern of the arms
RemapOf(out, arms) ==
    /\ Len(out) = Len(raw_text)
    /\ \A i \in 1..Len(raw_text) :
        raw_text[i] \notin Patterns(arms) => out[i] = raw_text[i]

\* C22: preprocess_kytea_style and KyteaFullwidthFilter::filter return equal
\* strings for the same text, each result has the number of characters of
\* the text and leaves every character outside the remap table unchanged,
\* and either function applied to its own result returns that result.
C22_SameRemap ==
    /\ (preprocessed # <<>> /\ filtered # <<>>) => preprocessed[1] = filtered[1]
    /\ preprocessed # <<>> => RemapOf(preprocessed[1], PreprocessArms)
    /\ filtered # <<>> => RemapOf(filtered[1], FilterArms)
    /\ \A k \in 2..Len(preprocessed) : preprocessed[k] = preprocessed[k - 1]
    /\ \A k \in 2..Len(filtered) : filtered[k] = filtered[k - 1]

\* both functions ran twice on a text of three characters that holds a
\* pattern of the table and a character outside it, and changed it
C22_Witness ==
    /\ Len(raw_text) = 3
    /\ \E i, j \in 1..3 :
        /\ raw_text[i] \in Patterns(PreprocessArms)
        /\ raw_text[j] \notin Patterns(PreprocessArms)
        /\ preprocessed # <<>>
        /\ preprocessed[1][i] # raw_text[i]
    /\ Len(preprocessed) >= 2
    /\ Len(filtered) >= 2

====
